---- MODULE Spec2Model ----
(***************************************************************************)
(* Expense tracker (src/app.py): a Flask application over two SQLite       *)
(* tables, users and expenses, with a cookie session holding the id of the *)
(* logged-in user.  Every route handler is one action.  Text that the code *)
(* parses, formats or compares (week tokens, amounts, dates) is a sequence *)
(* of one-character strings, ordered by character code as SQLite's BINARY  *)
(* collation orders it.                                                    *)
(***************************************************************************)
EXTENDS Integers, Sequences, FiniteSets, TLC

VARIABLES users, expenses, session, openConns, today, request, response

vars == <<users, expenses, session, openConns, today, request, response>>

(***************************************************************************)
(* Bounds of the exploration.                                              *)
(***************************************************************************)
MaxExpenses == 2
MaxConns == 1

(***************************************************************************)
(* Text.                                                                   *)
(***************************************************************************)
Ord(c) ==
    CASE c = "-" -> 45
      [] c = "0" -> 48 [] c = "1" -> 49 [] c = "2" -> 50 [] c = "3" -> 51
      [] c = "4" -> 52 [] c = "5" -> 53 [] c = "6" -> 54 [] c = "7" -> 55
      [] c = "8" -> 56 [] c = "9" -> 57
      [] c = "W" -> 87
      [] c = "a" -> 97 [] c = "b" -> 98 [] c = "c" -> 99 [] c = "e" -> 101
      [] c = "k" -> 107 [] c = "n" -> 110 [] c = "o" -> 111
      [] c = "t" -> 116 [] c = "w" -> 119

IsDigit(c) == Ord(c) >= 48 /\ Ord(c) <= 57

\* memcmp order of two texts: the first differing character decides, a
\* proper prefix sorts first.
RECURSIVE TextLE(_, _)
TextLE(a, b) ==
    IF a = <<>> THEN TRUE
    ELSE IF b = <<>> THEN FALSE
    ELSE IF Ord(Head(a)) # Ord(Head(b)) THEN Ord(Head(a)) < Ord(Head(b))
    ELSE TextLE(Tail(a), Tail(b))

\* x BETWEEN lo AND hi on TEXT values.
Between(x, lo, hi) == TextLE(lo, x) /\ TextLE(x, hi)

\* str.split(sep) for a two-character separator.
RECURSIVE Split2(_, _, _, _)
Split2(s, c1, c2, acc) ==
    IF Len(s) >= 2 /\ s[1] = c1 /\ s[2] = c2
      THEN <<acc>> \o Split2(SubSeq(s, 3, Len(s)), c1, c2, <<>>)
    ELSE IF s = <<>> THEN <<acc>>
    ELSE Split2(Tail(s), c1, c2, Append(acc, Head(s)))

SplitWeek(s) == Split2(s, "-", "W", <<>>)

RECURSIVE DigitsValue(_, _)
DigitsValue(s, acc) ==
    IF s = <<>> THEN acc
    ELSE DigitsValue(Tail(s), acc * 10 + (Ord(Head(s)) - 48))

AllDigits(s) == s # <<>> /\ \A i \in DOMAIN s : IsDigit(s[i])

\* int(text) and float(text) on texts made of digits, "-" and letters:
\* an optional sign followed by at least one digit, anything else raises
\* ValueError.  <<v>> is the value, <<>> the ValueError.
ParseInt(s) ==
    IF AllDigits(s) THEN <<DigitsValue(s, 0)>>
    ELSE IF s # <<>> /\ Head(s) = "-" /\ AllDigits(Tail(s))
      THEN <<0 - DigitsValue(Tail(s), 0)>>
    ELSE <<>>

ParseFloat(s) == ParseInt(s)

DigitChar(d) == <<"0", "1", "2", "3", "4", "5", "6", "7", "8", "9">>[d + 1]

\* "%0<width>d" of a natural number.
RECURSIVE ZeroPad(_, _)
ZeroPad(n, width) ==
    IF width <= 1 /\ n < 10 THEN <<DigitChar(n)>>
    ELSE Append(ZeroPad(n \div 10, width - 1), DigitChar(n % 10))

(***************************************************************************)
(* Calendar (datetime): proleptic Gregorian ordinals, 0001-01-01 is day 1. *)
(***************************************************************************)
MINYEAR == 1
MAXYEAR == 9999
MaxOrdinal == 3652059

IsLeap(y) == y % 4 = 0 /\ (y % 100 # 0 \/ y % 400 = 0)

DaysBeforeYear(y) ==
    (y - 1) * 365 + (y - 1) \div 4 - (y - 1) \div 100 + (y - 1) \div 400

DaysInMonth(y, m) ==
    IF m = 2 THEN (IF IsLeap(y) THEN 29 ELSE 28)
    ELSE IF m \in {4, 6, 9, 11} THEN 30 ELSE 31

\* _DAYS_BEFORE_MONTH, plus the leap day after February.
DaysBeforeMonth(y, m) ==
    <<0, 31, 59, 90, 120, 151, 181, 212, 243, 273, 304, 334>>[m]
      + (IF m > 2 /\ IsLeap(y) THEN 1 ELSE 0)

Ymd2Ord(y, m, d) == DaysBeforeYear(y) + DaysBeforeMonth(y, m) + d

Ord2Ymd(n) ==
    LET n0 == n - 1
        n400 == n0 \div 146097
        r400 == n0 % 146097
        n100 == r400 \div 36524
        r100 == r400 % 36524
        n4 == r100 \div 1461
        r4 == r100 % 1461
        n1 == r4 \div 365
        r1 == r4 % 365
        y == n400 * 400 + 1 + n100 * 100 + n4 * 4 + n1
    IN  IF n1 = 4 \/ n100 = 4 THEN <<y - 1, 12, 31>>
        ELSE LET m == CHOOSE k \in 1..12 :
                          /\ DaysBeforeMonth(y, k) <= r1
                          /\ r1 < DaysBeforeMonth(y, k) + DaysInMonth(y, k)
             IN  <<y, m, r1 - DaysBeforeMonth(y, m) + 1>>

\* date.weekday(): Monday is 0.
Weekday(n) == (n + 6) % 7

\* Ordinal of the Monday of ISO week 1 of year y: the week holding the
\* year's first Thursday.
IsoWeek1Monday(y) ==
    LET firstday == Ymd2Ord(y, 1, 1)
        firstweekday == (firstday + 6) % 7
    IN  IF firstweekday > 3 THEN firstday - firstweekday + 7
        ELSE firstday - firstweekday

\* date.isocalendar(): <<ISO year, ISO week, ISO weekday>>.
IsoCalendar(n) ==
    LET y == Ord2Ymd(n)[1]
        w == (n - IsoWeek1Monday(y)) \div 7
    IN  IF n < IsoWeek1Monday(y)
          THEN <<y - 1, (n - IsoWeek1Monday(y - 1)) \div 7 + 1, Weekday(n) + 1>>
        ELSE IF w >= 52 /\ n >= IsoWeek1Monday(y + 1)
          THEN <<y + 1, 1, Weekday(n) + 1>>
        ELSE <<y, w + 1, Weekday(n) + 1>>

LongYear(y) ==
    LET firstweekday == (Ymd2Ord(y, 1, 1) + 6) % 7
    IN  firstweekday = 3 \/ (firstweekday = 2 /\ IsLeap(y))

\* datetime.fromisocalendar(year, week, 1): <<ordinal>> of that Monday, or
\* <<>> for the ValueError of a year or week out of range.
FromIsoCalendar(year, week) ==
    IF year < MINYEAR \/ year > MAXYEAR THEN <<>>
    ELSE IF week < 1 \/ week > 53 THEN <<>>
    ELSE IF week = 53 /\ ~LongYear(year) THEN <<>>
    ELSE <<IsoWeek1Monday(year) + (week - 1) * 7>>

\* date.isoformat(), the text sqlite3 binds for a date parameter.
IsoFormat(n) ==
    LET ymd == Ord2Ymd(n)
    IN  ZeroPad(ymd[1], 4) \o <<"-">> \o ZeroPad(ymd[2], 2)
          \o <<"-">> \o ZeroPad(ymd[3], 2)

\* strftime("%Y-W%V"): the calendar year, then the ISO week number.
StrftimeYW(n) ==
    ZeroPad(Ord2Ymd(n)[1], 4) \o <<"-", "W">> \o ZeroPad(IsoCalendar(n)[2], 2)

(***************************************************************************)
(* Passwords (werkzeug.security).  A hash carries its random salt and a    *)
(* digest that is a one-way, collision-free function of salt and password. *)
(***************************************************************************)
Digest(salt, password) == <<salt, password>>

GeneratePasswordHash(password, salt) ==
    [salt |-> salt, digest |-> Digest(salt, password)]

\* check_password_hash gone wrong: the hash is tested for being well formed,
\* not against the password.
CheckPasswordHashAnyPassword(pwhash, password) ==
    pwhash.digest[1] = pwhash.salt

CheckPasswordHash(pwhash, password) ==
    pwhash.digest = Digest(pwhash.salt, password)

(***************************************************************************)
(* Storage connections: the number of connections opened and not closed.   *)
(***************************************************************************)
GetDb(conns) == conns + 1

ConnClose(conns) == conns - 1

(***************************************************************************)
(* Requests and responses.                                                 *)
(***************************************************************************)
NoUser == 0

NoText == <<>>

Req(method, path, email, password, amount, category, date, week) ==
    [method |-> method, path |-> path, email |-> email, password |-> password,
     amount |-> amount, category |-> category, date |-> date, week |-> week]

NoRequest == Req("", "", "", "", NoText, "", NoText, NoText)

Redirect(location) ==
    [status |-> 302, location |-> location, template |-> "", error |-> "",
     context |-> <<>>]

RenderTemplate(template, error, context) ==
    [status |-> 200, location |-> "", template |-> template, error |-> error,
     context |-> context]

\* An exception no handler catches: Flask answers 500.
InternalServerError ==
    [status |-> 500, location |-> "", template |-> "", error |-> "",
     context |-> <<>>]

NoResponse ==
    [status |-> 0, location |-> "", template |-> "", error |-> "",
     context |-> <<>>]

(***************************************************************************)
(* Session helpers.                                                        *)
(***************************************************************************)
CurrentUser == session

Truthy(v) == v # NoUser

(***************************************************************************)
(* The users table.                                                        *)
(***************************************************************************)
\* AUTOINCREMENT primary key: one more than the largest id ever stored.
RECURSIVE MaxId(_)
MaxId(rows) ==
    IF rows = <<>> THEN 0
    ELSE LET m == MaxId(Tail(rows))
         IN  IF Head(rows).id > m THEN Head(rows).id ELSE m

NextId(rows) == MaxId(rows) + 1

\* The users table gone wrong: email without its UNIQUE constraint.
UniqueViolationNever(email) == FALSE

\* The UNIQUE constraint on users.email.
UniqueViolation(email) == \E i \in DOMAIN users : users[i].email = email

\* SELECT * FROM users WHERE email = ? ; fetchone(): <<row>> or <<>>.
FetchUserByEmail(email) ==
    LET hits == {i \in DOMAIN users : users[i].email = email}
    IN  IF hits = {} THEN <<>>
        ELSE <<users[CHOOSE i \in hits : \A j \in hits : i <= j]>>

\* The state after init_db() on a fresh database file; day is the date the
\* server starts on.
InitOn(day) ==
    /\ users = <<>>
    /\ expenses = <<>>
    /\ session = NoUser
    /\ openConns = 0
    /\ today = day
    /\ request = NoRequest
    /\ response = NoResponse

(***************************************************************************)
(* Routes: landing and authentication.                                     *)
(***************************************************************************)
Index ==
    /\ request' = Req("GET", "/", "", "", NoText, "", NoText, NoText)
    /\ response' = RenderTemplate("start_page.html", "", <<>>)
    /\ UNCHANGED <<users, expenses, session, openConns, today>>

Signup(method, email, password, salt) ==
    /\ request' = Req(method, "/signup", email, password, NoText, "", NoText,
                      NoText)
    /\ IF method = "POST"
         THEN LET pwhash == GeneratePasswordHash(password, salt)
              IN  /\ openConns' = ConnClose(GetDb(openConns))
                  /\ IF UniqueViolation(email)
                       THEN /\ users' = users
                            /\ response' = RenderTemplate("signup.html",
                                 "Email already exists.", <<>>)
                       ELSE /\ users' = Append(users,
                                 [id |-> NextId(users), email |-> email,
                                  password |-> pwhash])
                            /\ response' = Redirect("login")
         ELSE /\ response' = RenderTemplate("signup.html", "", <<>>)
              /\ UNCHANGED <<users, openConns>>
    /\ UNCHANGED <<expenses, session, today>>

\* login gone wrong: an unknown email gets a message of its own and ends
\* the session.
LoginResultTellsApart(user, password) ==
    IF user = <<>>
      THEN [session |-> NoUser,
            response |-> RenderTemplate("login.html", "No such account.",
                                        <<>>)]
    ELSE IF CheckPasswordHash(user[1].password, password)
      THEN [session |-> user[1].id, response |-> Redirect("dashboard")]
    ELSE [session |-> session,
          response |-> RenderTemplate("login.html", "Invalid credentials.",
                                      <<>>)]

\* Lines 150-154: the outcome of a login POST for the fetched row.
LoginResult(user, password) ==
    IF user # <<>> /\ CheckPasswordHash(user[1].password, password)
      THEN [session |-> user[1].id, response |-> Redirect("dashboard")]
      ELSE [session |-> session,
            response |-> RenderTemplate("login.html", "Invalid credentials.",
                                        <<>>)]

Login(method, email, password) ==
    /\ request' = Req(method, "/login", email, password, NoText, "", NoText,
                      NoText)
    /\ IF method = "POST"
         THEN LET user == FetchUserByEmail(email)
                  result == LoginResult(user, password)
              IN  /\ openConns' = ConnClose(GetDb(openConns))
                  /\ session' = result.session
                  /\ response' = result.response
         ELSE /\ response' = RenderTemplate("login.html", "", <<>>)
              /\ UNCHANGED <<session, openConns>>
    /\ UNCHANGED <<users, expenses, today>>

Logout ==
    /\ request' = Req("GET", "/logout", "", "", NoText, "", NoText, NoText)
    /\ session' = NoUser
    /\ response' = Redirect("login")
    /\ UNCHANGED <<users, expenses, openConns, today>>

(***************************************************************************)
(* Route: dashboard.                                                       *)
(***************************************************************************)
WeekError == [ok |-> FALSE, selected_week |-> NoText, start_date |-> 0,
              end_date |-> 0]

\* Lines 200-210.  A token is split at "-W" and both parts go through
\* int(); a wrong number of parts, a part int() rejects, a year or week
\* fromisocalendar() rejects, or an end date past date.max raises.
WeekSelection(selected_week, now) ==
    IF selected_week # NoText
      THEN LET parts == SplitWeek(selected_week)
           IN  IF Len(parts) # 2 THEN WeekError
               ELSE IF ParseInt(parts[1]) = <<>> \/ ParseInt(parts[2]) = <<>>
                 THEN WeekError
               ELSE LET start == FromIsoCalendar(ParseInt(parts[1])[1],
                                                 ParseInt(parts[2])[1])
                    IN  IF start = <<>> THEN WeekError
                        ELSE IF start[1] + 6 > MaxOrdinal THEN WeekError
                        ELSE [ok |-> TRUE, selected_week |-> selected_week,
                              start_date |-> start[1],
                              end_date |-> start[1] + 6]
      ELSE LET start == now - Weekday(now)
           IN  [ok |-> TRUE, selected_week |-> StrftimeYW(now),
                start_date |-> start, end_date |-> start + 6]

RECURSIVE SumAmounts(_, _)
SumAmounts(rows, idx) ==
    IF idx = {} THEN 0
    ELSE LET i == CHOOSE k \in idx : TRUE
         IN  rows[i].amount + SumAmounts(rows, idx \ {i})

\* Lines 213-219: the rows of the GROUP BY, as a set.  The bounds are date
\* objects, bound as their ISO text and compared with the stored text.
Aggregate(rows, user_id, start_date, end_date) ==
    LET lo == IsoFormat(start_date)
        hi == IsoFormat(end_date)
        hit == {i \in DOMAIN rows :
                  rows[i].user_id = user_id /\ Between(rows[i].date, lo, hi)}
    IN  {[category |-> c,
          total |-> SumAmounts(rows, {i \in hit : rows[i].category = c})] :
            c \in {rows[i].category : i \in hit}}

\* fetchall(): the groups in an order the storage engine chooses.
RowOrders(groups) ==
    {f \in [1..Cardinality(groups) -> groups] :
        \A i, j \in 1..Cardinality(groups) : f[i] = f[j] => i = j}

RECURSIVE SumSeq(_)
SumSeq(s) == IF s = <<>> THEN 0 ELSE Head(s) + SumSeq(Tail(s))

\* max(amounts) and amounts.index(...): the first position of the maximum.
IndexOfMax(amounts) ==
    CHOOSE i \in DOMAIN amounts :
        /\ \A j \in DOMAIN amounts : amounts[j] <= amounts[i]
        /\ \A j \in DOMAIN amounts : amounts[j] = amounts[i] => i <= j

\* round(x, 2) of a whole amount.
Round2(x) == x

\* Lines 225-238.  top_category is <<>> for None, else <<category>>.
Prepare(selected_week, rows) ==
    LET categories == [i \in DOMAIN rows |-> rows[i].category]
        amounts == [i \in DOMAIN rows |-> rows[i].total]
    IN  [selected_week |-> selected_week,
         total_spent |-> Round2(SumSeq(amounts)),
         top_category |-> IF amounts # <<>>
                            THEN <<categories[IndexOfMax(amounts)]>>
                            ELSE <<>>,
         categories |-> categories,
         amounts |-> amounts]

\* The INSERT gone wrong: its parameters in the wrong order, amount before
\* user_id.
InsertExpenseSwapped(rows, user_id, amount, category, date) ==
    Append(rows, [id |-> NextId(rows), user_id |-> amount, amount |-> user_id,
                  category |-> category, date |-> date])

InsertExpense(rows, user_id, amount, category, date) ==
    Append(rows, [id |-> NextId(rows), user_id |-> user_id, amount |-> amount,
                  category |-> category, date |-> date])

\* The guard gone wrong: applied to GET only.
LoginRequiredGetOnly(method) == method = "GET" /\ ~Truthy(CurrentUser)

\* Line 179: the guard of the protected route.
LoginRequired(method) == ~Truthy(CurrentUser)

Dashboard(method, amount, category, date, week, now) ==
    /\ request' = Req(method, "/dashboard", "", "", amount, category, date,
                      week)
    /\ IF LoginRequired(method)
         THEN /\ response' = Redirect("login")
              /\ UNCHANGED <<users, expenses, session, openConns, today>>
         ELSE LET user_id == CurrentUser
              IN  IF method = "POST" /\ ParseFloat(amount) = <<>>
                    THEN \* float() raises after get_db(): nothing closes
                         \* the connection.
                         /\ openConns < MaxConns
                         /\ openConns' = GetDb(openConns)
                         /\ response' = InternalServerError
                         /\ UNCHANGED <<users, expenses, session, today>>
                    ELSE LET rows == IF method = "POST"
                                       THEN InsertExpense(expenses, user_id,
                                              ParseFloat(amount)[1], category,
                                              date)
                                       ELSE expenses
                             sel == WeekSelection(week, now)
                         IN  /\ method = "POST" => Len(expenses) < MaxExpenses
                             /\ expenses' = rows
                             /\ IF week = NoText
                                  THEN now >= today /\ today' = now
                                  ELSE today' = today
                             /\ IF sel.ok
                                  THEN /\ \E fetched \in RowOrders(
                                            Aggregate(rows, user_id,
                                              sel.start_date, sel.end_date)) :
                                            response' = RenderTemplate(
                                              "dashboard.html", "",
                                              <<Prepare(sel.selected_week,
                                                        fetched)>>)
                                       /\ openConns' = ConnClose(GetDb(openConns))
                                  ELSE \* the week token raises after the
                                       \* commit: 500, connection left open.
                                       /\ openConns < MaxConns
                                       /\ openConns' = GetDb(openConns)
                                       /\ response' = InternalServerError
                             /\ UNCHANGED <<users, session>>

(***************************************************************************)
(* Texts a client may send as form fields and query parameters.            *)
(***************************************************************************)
Methods == {"GET", "POST"}

Amount5 == <<"5">>

AmountAbc == <<"a", "b", "c">>

\* Wednesday of ISO week 2024-W03, zero-padded and not.
Date0117 == <<"2", "0", "2", "4", "-", "0", "1", "-", "1", "7">>

DateUnpadded == <<"2", "0", "2", "4", "-", "1", "-", "1", "7">>

Week03 == <<"2", "0", "2", "4", "-", "W", "0", "3">>

Week04 == <<"2", "0", "2", "4", "-", "W", "0", "4">>

Week40 == <<"2", "0", "2", "4", "-", "W", "4", "0">>

Week99 == <<"2", "0", "2", "4", "-", "W", "9", "9">>

NotAWeek == <<"n", "o", "t", "a", "w", "e", "e", "k">>

\* Wednesday 2024-01-17 (ISO 2024-W03) and Monday 2024-12-30 (ISO 2025-W01).
Day20240117 == Ymd2Ord(2024, 1, 17)

Day20241230 == Ymd2Ord(2024, 12, 30)

SignupRequest(emails, passwords, salts) ==
    \E m \in Methods, e \in emails, p \in passwords, s \in salts :
        Signup(m, IF m = "POST" THEN e ELSE "", IF m = "POST" THEN p ELSE "", s)

LoginRequest(emails, passwords) ==
    \E m \in Methods, e \in emails, p \in passwords :
        Login(m, IF m = "POST" THEN e ELSE "", IF m = "POST" THEN p ELSE "")

DashboardGet(weeks, clock) ==
    \E w \in weeks, now \in clock : Dashboard("GET", NoText, "", NoText, w, now)

DashboardPost(amounts, categories, dates, weeks, clock) ==
    \E a \in amounts, c \in categories, d \in dates, w \in weeks,
       now \in clock :
        Dashboard("POST", a, c, d, w, now)

(***************************************************************************)
(* Spec: accounts and sessions in full, the dashboard with one category    *)
(* and one date.                                                           *)
(***************************************************************************)
Emails == {"ann@x.io", "bob@x.io"}

Passwords == {"pw1", "pw2"}

Salts == {1, 2}

Init == InitOn(Day20240117)

Next ==
    \/ Index
    \/ SignupRequest(Emails, Passwords, Salts)
    \/ LoginRequest(Emails, Passwords)
    \/ Logout
    \/ DashboardGet({NoText, NotAWeek}, {Day20240117})
    \/ DashboardPost({Amount5, AmountAbc}, {"Food"}, {Date0117},
                     {NoText, NotAWeek}, {Day20240117})

Spec == Init /\ [][Next]_vars

(***************************************************************************)
(* SpecDash: two accounts with one password each, the dashboard over two   *)
(* categories, two date texts, six week parameters and two clock readings. *)
(***************************************************************************)
DashWeeks == {NoText, Week03, Week04, Week40, Week99, NotAWeek}

DashClock == {Day20240117, Day20241230}

NextDash ==
    \/ Index
    \/ SignupRequest(Emails, {"pw1"}, {1})
    \/ LoginRequest(Emails, {"pw1"})
    \/ Logout
    \/ DashboardGet(DashWeeks, DashClock)
    \/ DashboardPost({Amount5}, {"Food", "Rent"}, {Date0117, DateUnpadded},
                     {NoText}, DashClock)

SpecDash == Init /\ [][NextDash]_vars

(***************************************************************************)
(* Properties of accounts and sessions, checked under Spec.                *)
(***************************************************************************)
IsDashboard(r) == r.path = "/dashboard"

IsSignupPost(r) == r.path = "/signup" /\ r.method = "POST"

IsLoginPost(r) == r.path = "/login" /\ r.method = "POST"

\* The account was created by a signup with this password.
RegisteredWith(account, password) ==
    \E s \in Salts : account.password = GeneratePasswordHash(password, s)

\* Some account has this email and was created with this password.
ValidCredentials(email, password) ==
    \E i \in DOMAIN users :
        users[i].email = email /\ RegisteredWith(users[i], password)

InvalidCredentials ==
    RenderTemplate("login.html", "Invalid credentials.", <<>>)

DuplicateEmail ==
    RenderTemplate("signup.html", "Email already exists.", <<>>)

\* No request updates or deletes a stored row.
RowsKept ==
    /\ Len(users') >= Len(users)
    /\ \A i \in DOMAIN users : users'[i] = users[i]
    /\ Len(expenses') >= Len(expenses)
    /\ \A i \in DOMAIN expenses : expenses'[i] = expenses[i]

\* C1: a dashboard request, GET or POST, made while the session holds no
\* user id is answered with a redirect to the login page, carries no
\* aggregation data and leaves the users and expenses tables unchanged.
C1_UnauthenticatedDashboardRedirects ==
    [][(IsDashboard(request') /\ session = NoUser)
         => /\ response' = Redirect("login")
            /\ response'.context = <<>>
            /\ users' = users
            /\ expenses' = expenses
            /\ session' = NoUser]_vars

\* An expense form with a numeric amount posted after a logout: the tables
\* hold a user and an expense, the session is empty, the answer a redirect.
C1_Witness ==
    /\ IsDashboard(request)
    /\ request.method = "POST"
    /\ request.amount = Amount5
    /\ session = NoUser
    /\ users # <<>>
    /\ expenses # <<>>
    /\ response = Redirect("login")

\* C2: a login POST with an email that has no account and a login POST with
\* an existing email and a wrong password end the same way: the login form
\* with the one invalid-credentials message, no redirect, the session as it
\* was before the request, the tables unchanged.
C2_LoginFailuresIndistinguishable ==
    [][(/\ IsLoginPost(request')
        /\ \/ \A i \in DOMAIN users : users[i].email # request'.email
           \/ \E i \in DOMAIN users :
                 /\ users[i].email = request'.email
                 /\ ~RegisteredWith(users[i], request'.password))
         => /\ response' = InvalidCredentials
            /\ session' = session
            /\ users' = users
            /\ expenses' = expenses]_vars

\* A logged-in session tries the other account's email with a password it
\* was not created with: the generic message, and the session is kept.
C2_Witness ==
    /\ IsLoginPost(request)
    /\ response = InvalidCredentials
    /\ session # NoUser
    /\ \E i \in DOMAIN users :
          /\ users[i].email = request.email
          /\ users[i].id # session
          /\ ~RegisteredWith(users[i], request.password)

\* C3: a successful signup POST stores an account with the submitted email
\* and a hash of the submitted password under a fresh id; stored accounts
\* are never changed; every login POST with an account's email and the
\* password it was created with sets the session to that account's id and
\* redirects to the dashboard; and a login POST sets the session or
\* redirects only in that case.
C3_SignupThenLoginSucceeds ==
    [][/\ RowsKept
       /\ (IsSignupPost(request') /\ response' = Redirect("login"))
            => /\ Len(users') = Len(users) + 1
               /\ users'[Len(users')].email = request'.email
               /\ RegisteredWith(users'[Len(users')], request'.password)
               /\ \A i \in DOMAIN users :
                     users[i].id # users'[Len(users')].id
       /\ (IsLoginPost(request')
             /\ ValidCredentials(request'.email, request'.password))
            => /\ response' = Redirect("dashboard")
               /\ \A i \in DOMAIN users :
                     users[i].email = request'.email
                       => session' = users[i].id
       /\ (IsLoginPost(request')
             /\ (session' # session \/ response'.status = 302))
            => /\ ValidCredentials(request'.email, request'.password)
               /\ \E i \in DOMAIN users :
                     /\ users[i].email = request'.email
                     /\ session' = users[i].id]_vars

\* The second account logs in with its own credentials while both accounts
\* exist, both created with the same password under different salts.
C3_Witness ==
    /\ IsLoginPost(request)
    /\ response = Redirect("dashboard")
    /\ Len(users) = 2
    /\ session = users[2].id
    /\ users[2].email = request.email
    /\ RegisteredWith(users[1], request.password)
    /\ users[1].password # users[2].password

\* At most one account per email.
OneAccountPerEmail ==
    \A i, j \in DOMAIN users : users[i].email = users[j].email => i = j

\* C4: a signup POST whose email already belongs to an account returns the
\* signup form with the duplicate-email error, neither redirects nor fails,
\* and leaves the users table as it was; after any sequence of signups at
\* most one account exists per email.
C4_DuplicateSignupRejected ==
    [][/\ (IsSignupPost(request')
             /\ \E i \in DOMAIN users : users[i].email = request'.email)
            => /\ response' = DuplicateEmail
               /\ users' = users
       /\ OneAccountPerEmail']_vars

\* A duplicate signup with a password the account was not created with.
C4_Witness ==
    /\ IsSignupPost(request)
    /\ response = DuplicateEmail
    /\ Len(users) = 2
    /\ \E i \in DOMAIN users :
          /\ users[i].email = request.email
          /\ ~RegisteredWith(users[i], request.password)

\* Every expense's user_id is the id of a stored user.
ReferentialIntegrity ==
    \A i \in DOMAIN expenses :
        \E j \in DOMAIN users : users[j].id = expenses[i].user_id

\* C9: every stored expense's user_id is the id of an existing user; an
\* expense is created only by a dashboard POST of a logged-in session and
\* is owned by that session's user; no request updates or deletes a user or
\* an expense.
C9_ExpensesOwnedByExistingUsers ==
    [][/\ ReferentialIntegrity'
       /\ RowsKept
       /\ Len(users') > Len(users) => IsSignupPost(request')
       /\ Len(expenses') > Len(expenses)
            => /\ Len(expenses') = Len(expenses) + 1
               /\ IsDashboard(request')
               /\ request'.method = "POST"
               /\ session # NoUser
               /\ expenses'[Len(expenses')].user_id = session]_vars

\* Two accounts each own an expense; the last one was just posted by the
\* session's user.
C9_Witness ==
    /\ IsDashboard(request)
    /\ request.method = "POST"
    /\ Len(expenses) = 2
    /\ expenses[1].user_id # expenses[2].user_id
    /\ expenses[2].user_id = session

\* C10: every request that opens a storage connection has closed it when
\* the request ends, on every exit path; after any sequence of requests no
\* connection remains open.
C10_NoConnectionLeftOpen == openConns = 0

(***************************************************************************)
(* Properties of the weekly aggregation, checked under SpecDash.  The ISO  *)
(* calendar is restated here from its definition: weeks run Monday to      *)
(* Sunday and belong to the year their Thursday falls in.                  *)
(***************************************************************************)
MondayOfWeekOf(day) == day - Weekday(day)

ThursdayOfWeekOf(day) == MondayOfWeekOf(day) + 3

IsoYearOf(day) == Ord2Ymd(ThursdayOfWeekOf(day))[1]

IsoWeekOf(day) ==
    (ThursdayOfWeekOf(day) - Ymd2Ord(IsoYearOf(day), 1, 1)) \div 7 + 1

\* The token YYYY-Www of the ISO week holding the day.
IsoWeekToken(day) ==
    ZeroPad(IsoYearOf(day), 4) \o <<"-", "W">> \o ZeroPad(IsoWeekOf(day), 2)

\* The Mondays of the years the requests explored can name.
Mondays ==
    {d \in Ymd2Ord(2023, 12, 25)..Ymd2Ord(2025, 1, 6) : Weekday(d) = 0}

\* A week token is well formed when it is the token of some ISO week.
WellFormedWeek(token) == \E d \in Mondays : IsoWeekToken(d) = token

MondayOfToken(token) == CHOOSE d \in Mondays : IsoWeekToken(d) = token

\* An expense is dated on a day when its stored date is that day's
\* year-month-day text.
DatedWithin(expense, monday) ==
    \E d \in monday..(monday + 6) : expense.date = IsoFormat(d)

\* The (category, total) pairs of a user's expenses dated in the week that
\* starts on the given Monday.
PairsOfWeek(user_id, monday) ==
    LET hit == {i \in DOMAIN expenses :
                  /\ expenses[i].user_id = user_id
                  /\ DatedWithin(expenses[i], monday)}
    IN  {<<c, SumAmounts(expenses, {i \in hit : expenses[i].category = c})>> :
            c \in {expenses[i].category : i \in hit}}

\* The pairs of a rendered dashboard.
RenderedPairs(context) ==
    {<<context.categories[i], context.amounts[i]>> :
        i \in DOMAIN context.categories}

\* The Monday of the week a dashboard request selects.
SelectedMonday ==
    IF request.week = NoText THEN MondayOfWeekOf(today)
    ELSE MondayOfToken(request.week)

\* C5: for a logged-in user and a well-formed week token the dashboard is
\* rendered with exactly one (category, total) pair per category that has
\* an expense of that user dated from the Monday to the Sunday of that ISO
\* week, the total being the sum of those expenses' amounts; other users'
\* expenses and expenses dated outside the week contribute to no pair.
C5_PairsAreTheWeeksExpenses ==
    (/\ IsDashboard(request)
     /\ session # NoUser
     /\ WellFormedWeek(request.week))
      => /\ response.status = 200
         /\ response.context # <<>>
         /\ RenderedPairs(response.context[1])
              = PairsOfWeek(session, MondayOfToken(request.week))
         /\ Len(response.context[1].categories)
              = Cardinality(PairsOfWeek(session, MondayOfToken(request.week)))

\* C6: on every rendered dashboard top_category is absent exactly when the
\* user has no expense in the selected week; otherwise it is a category
\* whose total is the maximum of the week's per-category totals, the only
\* such category when one total is strictly the greatest.
C6_TopCategoryIsTheMaximum ==
    (/\ IsDashboard(request)
     /\ session # NoUser
     /\ response.status = 200
     /\ request.week = NoText \/ WellFormedWeek(request.week))
      => LET pairs == PairsOfWeek(session, SelectedMonday)
             top == response.context[1].top_category
         IN  /\ top = <<>> <=> pairs = {}
             /\ top # <<>>
                  => \E p \in pairs :
                        /\ p[1] = top[1]
                        /\ \A q \in pairs : q[2] <= p[2]

\* C7: a dashboard request of a logged-in user whose week parameter is
\* malformed ends in a validation-error response, never in an unhandled
\* server error.
C7_MalformedWeekIsValidationError ==
    (/\ IsDashboard(request)
     /\ session # NoUser
     /\ request.week # NoText
     /\ ~WellFormedWeek(request.week))
      => /\ response.status = 200
         /\ response.error # ""

\* C8: when a logged-in user requests the dashboard without a week
\* parameter, the token echoed as selected_week is the ISO year-week of the
\* week holding the current date, and the aggregation window is the Monday
\* to Sunday of that week.
C8_DefaultWeekIsCurrentIsoWeek ==
    (/\ IsDashboard(request)
     /\ session # NoUser
     /\ request.week = NoText
     /\ response.status = 200)
      => /\ response.context[1].selected_week = IsoWeekToken(today)
         /\ WeekSelection(NoText, today).start_date = MondayOfWeekOf(today)
         /\ WeekSelection(NoText, today).end_date = MondayOfWeekOf(today) + 6
         /\ RenderedPairs(response.context[1])
              = PairsOfWeek(session, MondayOfWeekOf(today))

====
